---- MODULE Spec2Model ----
(***************************************************************************)
(* Checkout / payment reconciliation of adaired-backend2:                  *)
(*   coupon evaluation      (controllers/coupon.controller.ts)             *)
(*   createOrder            (controllers/order.controller.ts)              *)
(*   createInvoice, status  (controllers/invoice.controller.ts)            *)
(*   stripeWebhook          (controllers/order.controller.ts)              *)
(* Every await of a handler that reads or writes a collection is one       *)
(* action, so that handlers interleave exactly where the event loop lets   *)
(* them.  Money is counted in 1/100 of a cent, so that a whole-percent     *)
(* discount of a whole-cent price is an integer.                           *)
(***************************************************************************)
EXTENDS Integers, Sequences, FiniteSets, TLC

(***************************************************************************)
(* Bounds of the model.                                                    *)
(***************************************************************************)
MaxActive == 2      \* handlers in flight at the same time
MaxMinute == 1      \* clock minutes that pass in a run
MaxCartLen == 1     \* line items in a cart
MaxSessions == 2    \* sessions the gateway opens in a run
MaxUsed == 2        \* recorded uses of a coupon
MaxEvalItems == 2   \* line items of a cart the evaluator is called with

(***************************************************************************)
(* Program constants.                                                      *)
(***************************************************************************)
Infinity == 1000000     \* default of the coupon limits and of the cap
FallbackRate == 84      \* exchange rate used when the lookup gives none

NoUser == "anonymous"
Users == {"u1", "u2"}
NoCoupon == "none"

(***************************************************************************)
(* Sequence helpers.                                                       *)
(***************************************************************************)
RECURSIVE SumPrices(_)
SumPrices(items) ==
    IF items = <<>> THEN 0
    ELSE Head(items).totalPrice + SumPrices(Tail(items))

\* The first of the indices in S, 0 when there is none (findOne on a
\* collection kept in insertion order; documents and sessions are numbered
\* from 1 and 0 is the null id).
First(S) == IF S = {} THEN 0 ELSE CHOOSE i \in S : \A j \in S : i <= j

Min(a, b) == IF a < b THEN a ELSE b
Max(a, b) == IF a > b THEN a ELSE b

(***************************************************************************)
(* Catalogue: the product documents a cart line is populated with.         *)
(***************************************************************************)
Products == {"p1", "p2"}
CategoryOf(p) == IF p = "p1" THEN "k1" ELSE "k2"

(***************************************************************************)
(* Coupon evaluator, coupon.controller.ts.                                 *)
(* A result is [ok, error, discount, discountedTotal, appliedTo].          *)
(***************************************************************************)
EvalError(e) ==
    [ok |-> FALSE, error |-> e, discount |-> 0, discountedTotal |-> 0,
     appliedTo |-> <<>>]

\* A result that returns the cart total in place of the discounted total.
EvalOkGross(d, t, items) ==
    [ok |-> TRUE, error |-> "", discount |-> d, discountedTotal |-> t + d,
     appliedTo |-> [i \in 1..Len(items) |-> items[i].product]]

EvalOk(d, t, items) ==
    [ok |-> TRUE, error |-> "", discount |-> d, discountedTotal |-> t,
     appliedTo |-> [i \in 1..Len(items) |-> items[i].product]]

\* A validation that never throws.
validateNothing(coupon) == FALSE

\* validateDiscountVsMinOrder: TRUE when it throws.
validateDiscountVsMinOrder(coupon) ==
    /\ coupon.minOrderAmount # 0
    /\ coupon.discountType = "flat"
    /\ coupon.discountValue > coupon.minOrderAmount

\* The eligible line items, by couponApplicableOn.
EligibleProducts(coupon, cart) ==
    IF coupon.couponApplicableOn = "specificProducts"
    THEN LET InList(p) == p.product \in coupon.specificProducts
         IN  SelectSeq(cart.products, InList)
    ELSE IF coupon.couponApplicableOn = "productCategories"
    THEN LET InCat(p) == CategoryOf(p.product) \in coupon.productCategories
         IN  SelectSeq(cart.products, InCat)
    ELSE cart.products

\* reduce((lowest, current) => current.totalPrice < lowest.totalPrice ?
\* current : lowest): the first item of lowest line total.
RECURSIVE LowestFrom(_, _)
LowestFrom(lowest, rest) ==
    IF rest = <<>> THEN lowest
    ELSE LowestFrom(IF Head(rest).totalPrice < lowest.totalPrice
                    THEN Head(rest) ELSE lowest, Tail(rest))

\* A choice of the first item, whatever its line total.
LowestIsFirst(items) == Head(items)

Lowest(items) == LowestFrom(Head(items), Tail(items))

\* coupon.maxDiscountAmount || Infinity
CapOf(coupon) ==
    IF coupon.maxDiscountAmount = 0 THEN Infinity ELSE coupon.maxDiscountAmount

calculateDiscount(coupon, cart) ==
    LET eligibleProducts == EligibleProducts(coupon, cart)
        Qualifies(p) == coupon.maxWordCount = 0 \/ p.wordCount <= coupon.maxWordCount
        qualifyingProducts == SelectSeq(eligibleProducts, Qualifies)
        productToDiscount == Lowest(qualifyingProducts)
        minQuantity == IF coupon.minQuantity = 0 THEN 1 ELSE coupon.minQuantity
        eligibleTotal == SumPrices(eligibleProducts)
        percentage == Min((eligibleTotal * coupon.discountValue) \div 100, CapOf(coupon))
        flat == Min(coupon.discountValue, CapOf(coupon))
    IN
    IF validateDiscountVsMinOrder(coupon) THEN EvalError("invalidConfiguration")
    ELSE IF /\ coupon.couponApplicableOn \in {"specificProducts", "productCategories"}
            /\ eligibleProducts = <<>>
    THEN EvalError("ineligible")
    ELSE IF coupon.discountType = "percentage" /\ coupon.discountValue = 100
    THEN IF qualifyingProducts = <<>> THEN EvalError("ineligible")
         ELSE IF productToDiscount.quantity # 1 THEN EvalError("singleItemOnly")
         ELSE EvalOk(productToDiscount.totalPrice,
                     cart.totalPrice - productToDiscount.totalPrice,
                     <<productToDiscount>>)
    ELSE IF /\ coupon.couponType = "quantityBased"
            /\ ~\E i \in 1..Len(eligibleProducts) :
                    eligibleProducts[i].quantity >= minQuantity
    THEN EvalError("ineligible")
    ELSE IF coupon.discountType = "percentage"
    THEN IF cart.totalPrice < coupon.minOrderAmount THEN EvalError("belowMinimum")
         ELSE EvalOk(percentage, Max(0, cart.totalPrice - percentage), eligibleProducts)
    ELSE IF coupon.discountType = "flat"
    THEN IF cart.totalPrice < coupon.minOrderAmount THEN EvalError("belowMinimum")
         ELSE EvalOk(flat, Max(0, cart.totalPrice - flat), eligibleProducts)
    ELSE EvalError("invalidDiscountType")

(***************************************************************************)
(* Stored coupons.  FLAT takes a flat amount off once per user and once    *)
(* in all; FREE is the 100%-off coupon.                                    *)
(***************************************************************************)
CouponIds == {"FLAT", "FREE"}

CouponDoc(code, type, value, perUser, total) ==
    [code |-> code, status |-> "Active",
     couponApplicableOn |-> "allProducts", couponType |-> "amountBased",
     discountType |-> type, discountValue |-> value,
     minOrderAmount |-> 100, maxDiscountAmount |-> Infinity,
     specificProducts |-> {}, productCategories |-> {},
     minQuantity |-> 1, maxWordCount |-> 0,
     usageLimitPerUser |-> perUser, totalUsageLimit |-> total,
     usedCount |-> 0, userUsage |-> <<>>, version |-> 0]

InitCoupons ==
    [c \in CouponIds |->
        IF c = "FLAT" THEN CouponDoc(c, "flat", 100, 1, 1)
        ELSE CouponDoc(c, "percentage", 100, Infinity, Infinity)]

\* The line item the storefront adds to a cart.
Item == [product |-> "p1", quantity |-> 1, wordCount |-> 100, totalPrice |-> 200]

VARIABLES
    carts,      \* Cart collection, in insertion order
    coupons,    \* Coupon collection, by id (the code)
    orders,     \* Order collection, in insertion order
    invoices,   \* Invoice collection, in insertion order
    sessions,   \* checkout sessions the gateway has opened
    minute,     \* the wall clock, in minutes
    answer,     \* the answer a handler has just given
    co,         \* createOrder requests in flight, by slot
    wh,         \* stripeWebhook requests in flight, by slot
    history,    \* what the handlers that ended have done (see History)
    evaluation, \* a call of calculateDiscount: its arguments and its result
    request     \* a webhook request on its way through the middleware

vars == <<carts, coupons, orders, invoices, sessions, minute, answer, co, wh,
          history, evaluation, request>>

\* A handler runs in a slot and frees it when it ends.
Slots == 1..MaxActive

IdleCo ==
    [pc |-> "idle", userId |-> NoUser, couponCode |-> NoCoupon,
     cart |-> 0, products |-> <<>>, totalPrice |-> 0,
     currency |-> "", exchangeRate |-> 0,
     coupon |-> NoCoupon, discountUSD |-> 0, finalPriceUSD |-> 0,
     orderNumber |-> 0, session |-> 0, order |-> 0, orderPaymentStatus |-> ""]

IdleWh ==
    [pc |-> "idle", type |-> "", session |-> 0, paid |-> FALSE,
     userId |-> NoUser, couponId |-> NoCoupon,
     order |-> 0, paymentStatus |-> "", invoice |-> 0,
     usedCount |-> 0, usageAt |-> 0, usage |-> 0, version |-> 0,
     products |-> <<>>, newSession |-> 0]

InFlight(p) == p.pc # "idle"

\* An answer: the handler, the status, the order of a 201 of createOrder,
\* the event and session of a verified webhook request, and the step of
\* createOrder the answer was given at.
NoReport == [couponDiscount |-> 0, productDiscounts |-> <<>>, items |-> 0]

NoAnswer ==
    [handler |-> "", status |-> 0, order |-> 0, event |-> "", session |-> 0,
     at |-> "", report |-> NoReport]

\* history.created: the orders createOrder answered 201 for;
\* history.settled: the [session, order] pairs of the paid completed events
\* handled so far, order being the one the event was matched to.
History == [created |-> {}, settled |-> {}]

\* No call of calculateDiscount is followed.
NoEvaluation == [called |-> FALSE]

\* No webhook request is on its way: req.body is not set, no parser has
\* marked the body as read (req._body).
NoBody == [kind |-> "none", of |-> ""]

NoRequest ==
    [pc |-> "idle", contentType |-> "", bytes |-> "", signature |-> "",
     body |-> NoBody, _body |-> FALSE, payload |-> NoBody]

Active ==
    Cardinality({r \in Slots : InFlight(co[r])})
        + Cardinality({h \in Slots : InFlight(wh[h])})

\* The slot a new request takes: the lowest one with no handler in flight.
FreeSlot(pool, r) == ~InFlight(pool[r]) /\ \A q \in 1..(r - 1) : InFlight(pool[q])

Init ==
    /\ carts = <<>>
    /\ coupons = InitCoupons
    /\ orders = <<>>
    /\ invoices = <<>>
    /\ sessions = <<>>
    /\ minute = 0
    /\ answer = NoAnswer
    /\ co = [r \in Slots |-> IdleCo]
    /\ wh = [h \in Slots |-> IdleWh]
    /\ history = History
    /\ evaluation = NoEvaluation
    /\ request = NoRequest

(***************************************************************************)
(* The clock and the cart service.                                         *)
(***************************************************************************)
Tick ==
    /\ answer = NoAnswer
    /\ minute < MaxMinute
    /\ minute' = minute + 1
    /\ UNCHANGED <<carts, coupons, orders, invoices, sessions, answer, co, wh,
                   history, evaluation, request>>

CartOf(cs, u) == First({i \in 1..Len(cs) : cs[i].userId = u})

\* recalculateCartTotals
Recalculated(cart) ==
    [cart EXCEPT !.totalQuantity = Len(cart.products),
                 !.totalPrice = SumPrices(cart.products)]

\* syncOrAddToCart: find the user's cart or create it, push the item,
\* recalculate the totals, save.
syncOrAddToCart(u) ==
    /\ answer = NoAnswer
    /\ LET i == CartOf(carts, u)
           cart == IF i = 0
                   THEN [userId |-> u, products |-> <<>>,
                         totalQuantity |-> 0, totalPrice |-> 0]
                   ELSE carts[i]
           saved == Recalculated([cart EXCEPT !.products = Append(@, Item)])
       IN  /\ Len(cart.products) < MaxCartLen
           /\ carts' = IF i = 0 THEN Append(carts, saved)
                       ELSE [carts EXCEPT ![i] = saved]
    /\ UNCHANGED <<coupons, orders, invoices, sessions, minute, evaluation, request,
                   answer, co, wh,
                   history>>

\* Cart.findOne(query) of emptyCart: the user's cart for a customerId; for
\* the empty query the first cart of the collection in its natural order,
\* the order of insertion; 0 when there is none.
FindCart(cs, customerId) ==
    IF customerId # NoUser THEN CartOf(cs, customerId)
    ELSE IF cs = <<>> THEN 0 ELSE 1

\* emptyCart, called by user u, who holds the permission on carts or not:
\* 403 for a customerId without the permission, 404 when no cart is found,
\* else the cart found is emptied and saved: 200.
emptyCart(u, customerId, permitted) ==
    /\ answer = NoAnswer
    /\ LET i == FindCart(carts, customerId)
           status == IF customerId # NoUser /\ ~permitted THEN 403
                     ELSE IF i = 0 THEN 404
                     ELSE 200
       IN  /\ carts' = IF status = 200
                       THEN [carts EXCEPT ![i] =
                                [@ EXCEPT !.products = <<>>, !.totalQuantity = 0,
                                          !.totalPrice = 0]]
                       ELSE carts
           /\ answer' = [handler |-> "emptyCart", status |-> status, order |-> 0,
                         event |-> "", session |-> 0, at |-> "", report |-> NoReport]
    /\ UNCHANGED <<coupons, orders, invoices, sessions, minute, evaluation, request,
                   co, wh, history>>

(***************************************************************************)
(* applyCoupon, coupon.controller.ts: the coupon lookup, the usage-limit   *)
(* checks and the evaluation.  It reads the Coupon collection only.        *)
(***************************************************************************)
ApplyError(e) ==
    [ok |-> FALSE, error |-> e, coupon |-> NoCoupon, discountUSD |-> 0,
     finalPriceUSD |-> 0]

\* Coupon.findOne({code, status: "Active", not expired})
FindActiveCoupon(cs, code) ==
    IF code \in DOMAIN cs /\ cs[code].status = "Active" THEN code ELSE NoCoupon

\* coupon.userUsage.find(u => u.userId === userId): index of the record, or 0
UsageOf(coupon, u) ==
    First({k \in 1..Len(coupon.userUsage) : coupon.userUsage[k].userId = u})

\* coupon.usedCount >= coupon.totalUsageLimit
TotalLimitReached(coupon) == coupon.usedCount >= coupon.totalUsageLimit

\* userUsage && userUsage.usageCount >= coupon.usageLimitPerUser
UserLimitReached(coupon, u) ==
    /\ UsageOf(coupon, u) # 0
    /\ coupon.userUsage[UsageOf(coupon, u)].usageCount >= coupon.usageLimitPerUser

applyCoupon(cs, code, cart, u) ==
    LET id == FindActiveCoupon(cs, code)
        res == calculateDiscount(cs[id], cart)
    IN
    IF id = NoCoupon THEN ApplyError("notFound")
    ELSE IF TotalLimitReached(cs[id]) THEN ApplyError("limitReached")
    ELSE IF validateDiscountVsMinOrder(cs[id]) THEN ApplyError("invalidConfiguration")
    ELSE IF UserLimitReached(cs[id], u) THEN ApplyError("limitReached")
    ELSE IF ~res.ok THEN ApplyError(res.error)
    ELSE [ok |-> TRUE, error |-> "", coupon |-> id,
          discountUSD |-> res.discount, finalPriceUSD |-> res.discountedTotal]

(***************************************************************************)
(* createOrder, order.controller.ts.                                       *)
(***************************************************************************)
\* The answer of createOrder: the status, and the order of a 201.
Answered(req, code) ==
    [handler |-> "createOrder", status |-> code,
     order |-> IF code = 201 THEN req.order ELSE 0, event |-> "", session |-> 0,
     at |-> req.pc,
     report |-> NoReport]

\* The request in slot r is answered and the slot freed.
CoEnds(r, code) ==
    /\ answer = NoAnswer
    /\ answer' = Answered(co[r], code)
    /\ co' = [co EXCEPT ![r] = IdleCo]
    /\ history' = IF code = 201
                  THEN [history EXCEPT !.created = @ \cup {co[r].order}]
                  ELSE history

\* The request in slot r goes on to its next await.
CoGoes(r, next) ==
    /\ answer = NoAnswer
    /\ co' = [co EXCEPT ![r] = next]
    /\ UNCHANGED <<answer, history>>

\* A request arrives.  No user id: 401.
CO_Receive(r, u, code) ==
    /\ answer = NoAnswer
    /\ FreeSlot(co, r)
    /\ Active < MaxActive
    /\ Len(sessions) < MaxSessions
    /\ IF u = NoUser
       THEN /\ answer' = Answered(IdleCo, 401)
            /\ UNCHANGED <<co, history>>
       ELSE CoGoes(r, [IdleCo EXCEPT !.pc = "readCart", !.userId = u,
                                     !.couponCode = code])
    /\ UNCHANGED <<carts, coupons, orders, invoices, sessions, minute, evaluation, request, wh>>

\* Cart.findOne({userId}); no cart or no items: 400.
CO_ReadCart(r) ==
    /\ co[r].pc = "readCart"
    /\ LET i == CartOf(carts, co[r].userId) IN
       IF i = 0 \/ carts[i].products = <<>>
       THEN CoEnds(r, 400)
       ELSE CoGoes(r, [co[r] EXCEPT !.pc = "currency", !.cart = i,
                                    !.products = carts[i].products,
                                    !.totalPrice = carts[i].totalPrice])
    /\ UNCHANGED <<carts, coupons, orders, invoices, sessions, minute, evaluation, request, wh>>

\* getCurrencyFromRegion: "inr" for country IN, else "usd"; a failed request
\* is rethrown as a CustomError.
getCurrencyFromRegion(geo) ==
    IF geo = "fail" THEN "throw" ELSE IF geo = "IN" THEN "inr" ELSE "usd"

\* getExchangeRate: 1 for usd; else the looked-up rate (83 here), 84 when
\* the answer has none; a failed request is rethrown as a CustomError (0).
getExchangeRate(currency, fx) ==
    IF currency = "usd" THEN 1
    ELSE IF fx = "fail" THEN 0
    ELSE IF fx = "norate" THEN FallbackRate
    ELSE FallbackRate - 1

CO_Currency(r, geo, fx) ==
    /\ co[r].pc = "currency"
    /\ LET currency == getCurrencyFromRegion(geo)
           rate == getExchangeRate(currency, fx)
       IN  IF currency = "throw" \/ rate = 0
           THEN CoEnds(r, 500)
           ELSE CoGoes(r, [co[r] EXCEPT !.pc = "coupon", !.currency = currency,
                                        !.exchangeRate = rate])
    /\ UNCHANGED <<carts, coupons, orders, invoices, sessions, minute, evaluation, request, wh>>

\* generateOrderNumber: day, month, year, hour and minute of now.
generateOrderNumber(now) == now

\* A coupon step that counts the use of the coupon at checkout.
CO_ApplyCouponCounting(r) ==
    /\ co[r].pc = "coupon"
    /\ LET cart == [products |-> co[r].products, totalPrice |-> co[r].totalPrice]
           res == IF co[r].couponCode = NoCoupon
                  THEN [ok |-> TRUE, error |-> "", coupon |-> NoCoupon,
                        discountUSD |-> 0, finalPriceUSD |-> cart.totalPrice]
                  ELSE applyCoupon(coupons, co[r].couponCode, cart, co[r].userId)
       IN  IF ~res.ok
           THEN /\ CoEnds(r, 500)
                /\ UNCHANGED coupons
           ELSE /\ CoGoes(r, [co[r] EXCEPT
                    !.pc = IF res.finalPriceUSD = 0 THEN "saveOrder" ELSE "session",
                    !.coupon = res.coupon,
                    !.discountUSD = res.discountUSD,
                    !.finalPriceUSD = res.finalPriceUSD,
                    !.orderNumber = generateOrderNumber(minute)])
                /\ coupons' = IF res.coupon = NoCoupon THEN coupons
                              ELSE [coupons EXCEPT ![res.coupon].usedCount = @ + 1]
    /\ UNCHANGED <<carts, orders, invoices, sessions, minute, evaluation, request, wh>>

\* A coupon step that drops a coupon that fails and goes on at full price.
CO_ApplyCouponLenient(r) ==
    /\ co[r].pc = "coupon"
    /\ LET cart == [products |-> co[r].products, totalPrice |-> co[r].totalPrice]
           none == [ok |-> TRUE, error |-> "", coupon |-> NoCoupon,
                    discountUSD |-> 0, finalPriceUSD |-> cart.totalPrice]
           tried == IF co[r].couponCode = NoCoupon THEN none
                    ELSE applyCoupon(coupons, co[r].couponCode, cart, co[r].userId)
           res == IF tried.ok THEN tried ELSE none
       IN  CoGoes(r, [co[r] EXCEPT
                    !.pc = IF res.finalPriceUSD = 0 THEN "saveOrder" ELSE "session",
                    !.coupon = res.coupon,
                    !.discountUSD = res.discountUSD,
                    !.finalPriceUSD = res.finalPriceUSD,
                    !.orderNumber = generateOrderNumber(minute)])
    /\ UNCHANGED <<carts, coupons, orders, invoices, sessions, minute, evaluation, request, wh>>

\* The coupon step and the order number.  A coupon error is thrown into
\* createOrder's catch: 500.
CO_ApplyCoupon(r) ==
    /\ co[r].pc = "coupon"
    /\ LET cart == [products |-> co[r].products, totalPrice |-> co[r].totalPrice]
           res == IF co[r].couponCode = NoCoupon
                  THEN [ok |-> TRUE, error |-> "", coupon |-> NoCoupon,
                        discountUSD |-> 0, finalPriceUSD |-> cart.totalPrice]
                  ELSE applyCoupon(coupons, co[r].couponCode, cart, co[r].userId)
       IN  IF ~res.ok
           THEN CoEnds(r, 500)
           ELSE CoGoes(r, [co[r] EXCEPT
                    !.pc = IF res.finalPriceUSD = 0 THEN "saveOrder" ELSE "session",
                    !.coupon = res.coupon,
                    !.discountUSD = res.discountUSD,
                    !.finalPriceUSD = res.finalPriceUSD,
                    !.orderNumber = generateOrderNumber(minute)])
    /\ UNCHANGED <<carts, coupons, orders, invoices, sessions, minute, evaluation, request, wh>>

\* Amounts are held in hundredths of a cent; toFixed(2) keeps whole cents.
Cent == 100

\* n / d rounded to the nearest cent, a half going up, as toFixed(2) does.
ToFixed2(n, d) == ((2 * n + Cent * d) \div (2 * Cent * d)) * Cent

\* product.pricePerUnit, the price of 100 words: the storefront's line
\* totals are computed from it.
PricePerUnit(product) == 200

\* Math.round(amount * 100): an amount in the gateway's unit, whole cents.
UnitAmount(amount) == ToFixed2(amount, 1)

RECURSIVE LineItemsOfCheckout(_, _)
\* createStripeSession: the line items, unit_amount times quantity, priced
\* from the product's pricePerUnit and the word count in local currency.
LineItemsOfCheckout(products, exchangeRate) ==
    IF products = <<>> THEN 0
    ELSE LET item == Head(products)
             unitAmountUSD == IF item.wordCount > 0
                              THEN (item.wordCount * PricePerUnit(item.product)) \div 100
                              ELSE PricePerUnit(item.product)
         IN  UnitAmount(unitAmountUSD * exchangeRate) * item.quantity
                + LineItemsOfCheckout(Tail(products), exchangeRate)

\* The total a session of createStripeSession asks for: the line items less
\* the amount_off of the one-time coupon made for the discount.
CheckoutAmount(req) ==
    LET discountLocal == req.discountUSD * req.exchangeRate IN
    Max(0, LineItemsOfCheckout(req.products, req.exchangeRate)
              - (IF discountLocal > 0 THEN UnitAmount(discountLocal) ELSE 0))

RECURSIVE LineItemsOfReissue(_)
\* expired: the line items of the new session, unit_amount the totalPrice
\* of a cart item, times its quantity, in usd.
LineItemsOfReissue(products) ==
    IF products = <<>> THEN 0
    ELSE UnitAmount(Head(products).totalPrice) * Head(products).quantity
            + LineItemsOfReissue(Tail(products))

\* A session step of a handler that has emptied the cart before the
\* gateway answers.
CO_SessionCartCleared(r, ok) ==
    /\ co[r].pc = "session"
    /\ carts' = [carts EXCEPT ![co[r].cart] =
                    [@ EXCEPT !.products = <<>>, !.totalPrice = 0,
                              !.totalQuantity = 0]]
    /\ IF ok
       THEN /\ sessions' = Append(sessions,
                    [userId |-> co[r].userId, couponId |-> co[r].coupon,
                     reissueOf |-> 0, amount |-> CheckoutAmount(co[r]),
                     exchangeRate |-> co[r].exchangeRate])
            /\ CoGoes(r, [co[r] EXCEPT !.pc = "saveOrder",
                                       !.session = Len(sessions) + 1,
                                       !.currency = "", !.exchangeRate = 0])
       ELSE /\ CoEnds(r, 500)
            /\ UNCHANGED sessions
    /\ UNCHANGED <<coupons, orders, invoices, minute, evaluation, request, wh>>

\* createStripeSession: the gateway opens a session carrying the user and
\* the coupon as metadata, or the call fails and createOrder answers 500.
CO_Session(r, ok) ==
    /\ co[r].pc = "session"
    /\ IF ok
       THEN /\ sessions' = Append(sessions,
                    [userId |-> co[r].userId, couponId |-> co[r].coupon,
                     reissueOf |-> 0, amount |-> CheckoutAmount(co[r]),
                     exchangeRate |-> co[r].exchangeRate])
            /\ CoGoes(r, [co[r] EXCEPT !.pc = "saveOrder",
                                       !.session = Len(sessions) + 1,
                                       !.currency = "", !.exchangeRate = 0])
       ELSE /\ CoEnds(r, 500)
            /\ UNCHANGED sessions
    /\ UNCHANGED <<carts, coupons, orders, invoices, minute, evaluation, request, wh>>

\* An Order document that takes no account of a final price of 0.
NewOrderUnpaid(req) ==
    [orderNumber |-> req.orderNumber, userId |-> req.userId,
     products |-> req.products, totalPrice |-> req.totalPrice,
     couponDiscount |-> req.discountUSD, finalPrice |-> req.finalPriceUSD,
     couponId |-> req.coupon, invoiceId |-> 0,
     paymentId |-> req.session, paymentUrl |-> req.session,
     paymentStatus |-> "Unpaid"]

\* The Order document createOrder builds: Paid without a session when the
\* final price is 0, else Unpaid with the session's id and url.
NewOrder(req) ==
    [orderNumber |-> req.orderNumber, userId |-> req.userId,
     products |-> req.products, totalPrice |-> req.totalPrice,
     couponDiscount |-> req.discountUSD, finalPrice |-> req.finalPriceUSD,
     couponId |-> req.coupon, invoiceId |-> 0,
     paymentId |-> IF req.finalPriceUSD = 0 THEN 0 ELSE req.session,
     paymentUrl |-> IF req.finalPriceUSD = 0 THEN 0 ELSE req.session,
     paymentStatus |-> IF req.finalPriceUSD = 0 THEN "Paid" ELSE "Unpaid"]

\* OrderSchema.index({orderNumber: 1}, {unique: true})
OrderNumberTaken(os, n) == \E i \in 1..Len(os) : os[i].orderNumber = n

\* A save of the order that clears the cart with it, before the invoice.
CO_SaveOrderClearing(r) ==
    /\ co[r].pc = "saveOrder"
    /\ IF OrderNumberTaken(orders, co[r].orderNumber)
       THEN /\ CoEnds(r, 500)
            /\ UNCHANGED <<orders, carts>>
       ELSE /\ orders' = Append(orders, NewOrder(co[r]))
            /\ carts' = [carts EXCEPT ![co[r].cart] =
                            [@ EXCEPT !.products = <<>>, !.totalPrice = 0,
                                      !.totalQuantity = 0]]
            /\ CoGoes(r, [co[r] EXCEPT !.pc = "findOrder", !.order = Len(orders) + 1])
    /\ UNCHANGED <<coupons, invoices, sessions, minute, evaluation, request, wh>>

\* newOrder.save(); a duplicate order number is rejected by the index: 500.
CO_SaveOrder(r) ==
    /\ co[r].pc = "saveOrder"
    /\ IF OrderNumberTaken(orders, co[r].orderNumber)
       THEN /\ CoEnds(r, 500)
            /\ UNCHANGED orders
       ELSE /\ orders' = Append(orders, NewOrder(co[r]))
            /\ CoGoes(r, [co[r] EXCEPT !.pc = "findOrder", !.order = Len(orders) + 1])
    /\ UNCHANGED <<carts, coupons, invoices, sessions, minute, evaluation, request, wh>>

(***************************************************************************)
(* createInvoice, invoice.controller.ts, as createOrder calls it.  Its     *)
(* errors are thrown into createOrder's catch: 500.                        *)
(***************************************************************************)
\* Invoice.findOne({orderId}): index of the order's invoice, or 0
InvoiceOf(invs, o) == First({i \in 1..Len(invs) : invs[i].orderId = o})

\* generateInvoiceNumber
generateInvoiceNumber(orderNumber) == <<"INV", orderNumber>>

\* InvoiceSchema invoiceNumber: {unique: true}
InvoiceNumberTaken(invs, n) == \E i \in 1..Len(invs) : invs[i].invoiceNumber = n

\* status: order.paymentStatus === "Paid" ? "Paid" : "Unpaid"
IssuedStatus(paymentStatus) == IF paymentStatus = "Paid" THEN "Paid" ELSE "Unpaid"

\* Order.findById(orderId): the order as createInvoice reads it.
CI_FindOrder(r) ==
    /\ co[r].pc = "findOrder"
    /\ CoGoes(r, [co[r] EXCEPT !.pc = "findInvoice",
                    !.orderPaymentStatus = orders[co[r].order].paymentStatus])
    /\ UNCHANGED <<carts, coupons, orders, invoices, sessions, minute, evaluation, request, wh>>

\* createInvoice throws "Invoice already exists for this order."
DuplicateInvoice(invs, o) == InvoiceOf(invs, o) # 0

\* Invoice.findOne({orderId}): an existing invoice is the duplicate error.
CI_FindInvoice(r) ==
    /\ co[r].pc = "findInvoice"
    /\ IF DuplicateInvoice(invoices, co[r].order)
       THEN CoEnds(r, 500)
       ELSE CoGoes(r, [co[r] EXCEPT !.pc = "saveInvoice"])
    /\ UNCHANGED <<carts, coupons, orders, invoices, sessions, minute, evaluation, request, wh>>

\* An Invoice document filed under the first order of the order's user.
NewInvoiceOfUser(req, order) ==
    [invoiceNumber |-> generateInvoiceNumber(order.orderNumber),
     orderId |-> First({o \in 1..Len(orders) : orders[o].userId = order.userId}),
     userId |-> order.userId,
     totalAmount |-> order.totalPrice, discountAmount |-> order.couponDiscount,
     finalAmount |-> order.finalPrice,
     status |-> IssuedStatus(req.orderPaymentStatus)]

NewInvoice(req, order) ==
    [invoiceNumber |-> generateInvoiceNumber(order.orderNumber),
     orderId |-> req.order, userId |-> order.userId,
     totalAmount |-> order.totalPrice, discountAmount |-> order.couponDiscount,
     finalAmount |-> order.finalPrice,
     status |-> IssuedStatus(req.orderPaymentStatus)]

\* newInvoice.save(), with the status read by CI_FindOrder.
CI_Save(r) ==
    /\ co[r].pc = "saveInvoice"
    /\ LET inv == NewInvoice(co[r], orders[co[r].order]) IN
       IF InvoiceNumberTaken(invoices, inv.invoiceNumber)
       THEN /\ CoEnds(r, 500)
            /\ UNCHANGED invoices
       ELSE /\ invoices' = Append(invoices, inv)
            /\ CoGoes(r, [co[r] EXCEPT !.pc = "linkInvoice"])
    /\ UNCHANGED <<carts, coupons, orders, sessions, minute, evaluation, request, wh>>

\* Order.findByIdAndUpdate(orderId, {invoiceId: invoiceNumber})
CI_LinkOrder(r) ==
    /\ co[r].pc = "linkInvoice"
    /\ orders' = [orders EXCEPT ![co[r].order].invoiceId =
                    generateInvoiceNumber(orders[co[r].order].orderNumber)]
    /\ CoGoes(r, [co[r] EXCEPT !.pc = "clearCart"])
    /\ UNCHANGED <<carts, coupons, invoices, sessions, minute, evaluation, request, wh>>

\* cart.updateOne({products: [], totalPrice: 0, totalQuantity: 0}), then 201.
CO_ClearCart(r) ==
    /\ co[r].pc = "clearCart"
    /\ carts' = [carts EXCEPT ![co[r].cart] =
                    [@ EXCEPT !.products = <<>>, !.totalPrice = 0,
                              !.totalQuantity = 0]]
    /\ CoEnds(r, 201)
    /\ UNCHANGED <<coupons, orders, invoices, sessions, minute, evaluation, request, wh>>

(***************************************************************************)
(* stripeWebhook, order.controller.ts.                                     *)
(***************************************************************************)
\* The answer of stripeWebhook; status 0 stands for a handler that threw
\* after the signature check and so never answered.
Ended(code, type, sid) ==
    [handler |-> "stripeWebhook", status |-> code, order |-> 0,
     event |-> type, session |-> sid, at |-> "", report |-> NoReport]

\* The request in slot h has ended and the slot is freed.
WhEnds(h, code) ==
    /\ answer = NoAnswer
    /\ answer' = Ended(code, wh[h].type, wh[h].session)
    /\ wh' = [wh EXCEPT ![h] = IdleWh]
    /\ history' = IF wh[h].type = "checkout.session.completed" /\ wh[h].order # 0
                  THEN [history EXCEPT !.settled = @ \cup
                            {[session |-> wh[h].session, order |-> wh[h].order]}]
                  ELSE history

\* The request in slot h goes on to its next await.
WhGoes(h, next) ==
    /\ answer = NoAnswer
    /\ wh' = [wh EXCEPT ![h] = next]
    /\ UNCHANGED <<answer, history>>

\* Order.findOneAndUpdate({paymentId: session.id}, ...): the order matched
OrderByPayment(os, sid) == First({o \in 1..Len(os) : os[o].paymentId = sid})

\* A check that only asks for the header and skips the verification.
SignaturePresent(sig) == sig # "missing"

\* The signature check: a missing header or a failed verification is 400.
SignatureOk(sig) == sig = "good"

\* The first await of the handler for a verified event, by event type.
Dispatch(type, paid) ==
    IF type = "checkout.session.completed" /\ paid THEN "completed"
    ELSE IF type = "checkout.session.expired" THEN "expired"
    ELSE "done"

EventTypes == {"checkout.session.completed", "checkout.session.expired", "other"}

\* Uses of coupon id recorded so far, for the bound on the run.
UsedCount(id) == IF id \in DOMAIN coupons THEN coupons[id].usedCount ELSE 0

\* A webhook request arrives.  A verified event is one the gateway sent: it
\* carries a session the gateway opened, with that session's metadata; a
\* request that fails the verification may carry anything.
WH_Receive(h, type, sid, paid, sig) ==
    /\ answer = NoAnswer
    /\ FreeSlot(wh, h)
    /\ Active < MaxActive
    /\ paid => type = "checkout.session.completed"
    /\ SignatureOk(sig) =>
            /\ sid \in 1..Len(sessions)
            /\ UsedCount(sessions[sid].couponId) < MaxUsed
            /\ type = "checkout.session.expired" => Len(sessions) < MaxSessions
    /\ IF ~SignatureOk(sig)
       THEN /\ answer' = Ended(400, "", 0)
            /\ UNCHANGED <<wh, history>>
       ELSE IF Dispatch(type, paid) = "done"
       THEN /\ answer' = Ended(200, type, sid)
            /\ UNCHANGED <<wh, history>>
       ELSE WhGoes(h, [IdleWh EXCEPT !.pc = Dispatch(type, paid), !.type = type,
                                     !.session = sid,
                                     !.userId = sessions[sid].userId,
                                     !.couponId = sessions[sid].couponId])
    /\ UNCHANGED <<carts, coupons, orders, invoices, sessions, minute, evaluation, request, co>>

\* completed and paid: Order.findOneAndUpdate({paymentId}, {paymentStatus:
\* "Paid"}, {new: true}); no order matched: 200.
WH_Completed(h) ==
    /\ wh[h].pc = "completed"
    /\ LET o == OrderByPayment(orders, wh[h].session) IN
       IF o = 0
       THEN /\ WhEnds(h, 200)
            /\ UNCHANGED orders
       ELSE /\ orders' = [orders EXCEPT ![o].paymentStatus = "Paid"]
            /\ WhGoes(h, [wh[h] EXCEPT !.pc = "findInvoice", !.order = o,
                                       !.paymentStatus = "Paid"])
    /\ UNCHANGED <<carts, coupons, invoices, sessions, minute, evaluation, request, co>>

\* expired: Order.findOneAndUpdate({paymentId}, {paymentStatus: "Unpaid"},
\* {new: true}); no order matched: 200.
WH_Expired(h) ==
    /\ wh[h].pc = "expired"
    /\ LET o == OrderByPayment(orders, wh[h].session) IN
       IF o = 0
       THEN /\ WhEnds(h, 200)
            /\ UNCHANGED orders
       ELSE /\ orders' = [orders EXCEPT ![o].paymentStatus = "Unpaid"]
            /\ WhGoes(h, [wh[h] EXCEPT !.pc = "findInvoice", !.order = o,
                                       !.paymentStatus = "Unpaid"])
    /\ UNCHANGED <<carts, coupons, invoices, sessions, minute, evaluation, request, co>>

\* What follows the invoice sync: the coupon usage of a completed session
\* that carries a coupon, the new session of an expired one; "done" when
\* the handler answers.
AfterSync(w) ==
    IF w.type = "checkout.session.expired" THEN "findCart"
    ELSE IF w.couponId # NoCoupon THEN "findCoupon"
    ELSE "done"

\* updateInvoicePaymentStatus: Invoice.findOne({orderId})
WH_FindInvoice(h) ==
    /\ wh[h].pc = "findInvoice"
    /\ LET i == InvoiceOf(invoices, wh[h].order) IN
       IF i # 0 THEN WhGoes(h, [wh[h] EXCEPT !.pc = "syncInvoice", !.invoice = i])
       ELSE IF AfterSync(wh[h]) = "done" THEN WhEnds(h, 200)
       ELSE WhGoes(h, [wh[h] EXCEPT !.pc = AfterSync(wh[h])])
    /\ UNCHANGED <<carts, coupons, orders, invoices, sessions, minute, evaluation, request, co>>

\* updateInvoicePaymentStatus: the status written for a payment status
SyncedStatus(paymentStatus) ==
    IF paymentStatus = "Paid" THEN "Paid"
    ELSE IF paymentStatus = "Failed" THEN "Failed"
    ELSE IF paymentStatus = "Refunded" THEN "Refunded"
    ELSE "Unpaid"

\* updateInvoicePaymentStatus: Invoice.findByIdAndUpdate(_id, {status})
WH_SyncInvoice(h) ==
    /\ wh[h].pc = "syncInvoice"
    /\ invoices' = [invoices EXCEPT ![wh[h].invoice].status =
                        SyncedStatus(wh[h].paymentStatus)]
    /\ IF AfterSync(wh[h]) = "done" THEN WhEnds(h, 200)
       ELSE WhGoes(h, [wh[h] EXCEPT !.pc = AfterSync(wh[h]), !.invoice = 0])
    /\ UNCHANGED <<carts, coupons, orders, sessions, minute, evaluation, request, co>>

\* recordCouponUsage: Coupon.findById; a missing coupon is thrown.
WH_FindCoupon(h) ==
    /\ wh[h].pc = "findCoupon"
    /\ IF wh[h].couponId \notin DOMAIN coupons
       THEN WhEnds(h, 0)
       ELSE LET c == coupons[wh[h].couponId]
                k == UsageOf(c, wh[h].userId)
            IN  WhGoes(h, [wh[h] EXCEPT !.pc = "saveCoupon",
                                        !.usedCount = c.usedCount,
                                        !.usageAt = k,
                                        !.usage = IF k = 0 THEN 0
                                                  ELSE c.userUsage[k].usageCount,
                                        !.version = c.version])
    /\ UNCHANGED <<carts, coupons, orders, invoices, sessions, minute, evaluation, request, co>>

\* The document coupon.save() leaves, from the copy w read: usedCount is
\* set to the copy's count plus one; a new user's record is pushed and the
\* version incremented; a known user's count is set by position.
SavedCoupon(c, w) ==
    IF w.usageAt = 0
    THEN [c EXCEPT !.usedCount = w.usedCount + 1,
                   !.userUsage = Append(@, [userId |-> w.userId, usageCount |-> 1]),
                   !.version = @ + 1]
    ELSE [c EXCEPT !.usedCount = w.usedCount + 1,
                   !.userUsage[w.usageAt].usageCount = w.usage + 1]

\* A save that sets an array element by position is conditioned on the
\* version the copy was read at.
VersionConflict(c, w) == w.usageAt # 0 /\ c.version # w.version

\* recordCouponUsage: coupon.save(), then the answer 200.
WH_SaveCoupon(h) ==
    /\ wh[h].pc = "saveCoupon"
    /\ LET id == wh[h].couponId IN
       IF VersionConflict(coupons[id], wh[h])
       THEN /\ WhEnds(h, 0)
            /\ UNCHANGED coupons
       ELSE /\ coupons' = [coupons EXCEPT ![id] = SavedCoupon(@, wh[h])]
            /\ WhEnds(h, 200)
    /\ UNCHANGED <<carts, orders, invoices, sessions, minute, evaluation, request, co>>

\* expired: Cart.findOne({userId: metadata.userId}); no items: 200.
WH_FindCart(h) ==
    /\ wh[h].pc = "findCart"
    /\ LET i == CartOf(carts, wh[h].userId) IN
       IF i = 0 \/ carts[i].products = <<>>
       THEN WhEnds(h, 200)
       ELSE WhGoes(h, [wh[h] EXCEPT !.pc = "newSession",
                                    !.products = carts[i].products])
    /\ UNCHANGED <<carts, coupons, orders, invoices, sessions, minute, evaluation, request, co>>

\* expired: stripe.checkout.sessions.create with the expired session's
\* metadata; a failed call is thrown.
WH_NewSession(h, ok) ==
    /\ wh[h].pc = "newSession"
    /\ IF ok
       THEN /\ sessions' = Append(sessions,
                    [userId |-> wh[h].userId, couponId |-> wh[h].couponId,
                     reissueOf |-> wh[h].session,
                     amount |-> LineItemsOfReissue(wh[h].products),
                     exchangeRate |-> 1])
            /\ WhGoes(h, [wh[h] EXCEPT !.pc = "overwrite",
                                       !.newSession = Len(sessions) + 1,
                                       !.products = <<>>])
       ELSE /\ WhEnds(h, 0)
            /\ UNCHANGED sessions
    /\ UNCHANGED <<carts, coupons, orders, invoices, minute, evaluation, request, co>>

\* An overwrite that stores the new url and keeps the expired session's id.
WH_OverwriteUrl(h) ==
    /\ wh[h].pc = "overwrite"
    /\ LET o == OrderByPayment(orders, wh[h].session) IN
       orders' = IF o = 0 THEN orders
                 ELSE [orders EXCEPT ![o].paymentUrl = wh[h].newSession]
    /\ WhEnds(h, 200)
    /\ UNCHANGED <<carts, coupons, invoices, sessions, minute, evaluation, request, co>>

\* expired: Order.findOneAndUpdate({paymentId: expired id}, {paymentUrl,
\* paymentId: new id}), then the answer 200.
WH_Overwrite(h) ==
    /\ wh[h].pc = "overwrite"
    /\ LET o == OrderByPayment(orders, wh[h].session) IN
       orders' = IF o = 0 THEN orders
                 ELSE [orders EXCEPT ![o].paymentId = wh[h].newSession,
                                     ![o].paymentUrl = wh[h].newSession]
    /\ WhEnds(h, 200)
    /\ UNCHANGED <<carts, coupons, invoices, sessions, minute, evaluation, request, co>>


(***************************************************************************)
(* calculateCouponDiscount, coupon.controller.ts: the coupon preview.  It  *)
(* has one await, the coupon lookup, and writes nothing.                   *)
(***************************************************************************)
\* The carts a client sends for a preview.
LocalCarts ==
    {Recalculated([userId |-> NoUser, products |-> items,
                   totalQuantity |-> 0, totalPrice |-> 0]) :
        items \in {<<>>, <<Item>>}}

\* The status the preview answers with; an error thrown inside its try
\* block leaves through the catch as a 500.
PreviewStatus(cs, code, cart) ==
    LET id == FindActiveCoupon(cs, code)
        res == calculateDiscount(cs[id], cart)
        Applied(p) == \E k \in 1..Len(res.appliedTo) : res.appliedTo[k] = p.product
        eligibleTotal == SumPrices(SelectSeq(cart.products, Applied))
    IN
    IF cart.products = <<>> THEN 400
    ELSE IF code = NoCoupon THEN 200
    ELSE IF id = NoCoupon THEN 404
    ELSE IF TotalLimitReached(cs[id]) THEN 400
    ELSE IF validateDiscountVsMinOrder(cs[id]) THEN 500
    ELSE IF ~res.ok THEN 500
    ELSE IF eligibleTotal = 0 THEN 500
    ELSE 200

\* The productDiscounts object: forEach assigns one key per product id, so
\* a later line item of the same product replaces the amount of an earlier one.
ProductDiscounts(eligibleProducts, finalDiscount) ==
    LET eligibleTotal == SumPrices(eligibleProducts)
        LastOf(id) == CHOOSE k \in 1..Len(eligibleProducts) :
                          /\ eligibleProducts[k].product = id
                          /\ \A j \in (k + 1)..Len(eligibleProducts) :
                                 eligibleProducts[j].product # id
    IN
    [id \in {eligibleProducts[k].product : k \in 1..Len(eligibleProducts)} |->
        ToFixed2(finalDiscount * eligibleProducts[LastOf(id)].totalPrice,
                 eligibleTotal)]

\* What a 200 answer of the preview reports for a coupon code.
PreviewReport(cs, code, cart) ==
    LET id == FindActiveCoupon(cs, code)
        res == calculateDiscount(cs[id], cart)
        Applied(p) == \E k \in 1..Len(res.appliedTo) : res.appliedTo[k] = p.product
        eligibleProducts == SelectSeq(cart.products, Applied)
        finalDiscount == Min(res.discount, CapOf(cs[id]))
    IN
    IF code = NoCoupon \/ PreviewStatus(cs, code, cart) # 200 THEN NoReport
    ELSE [couponDiscount |-> finalDiscount,
          productDiscounts |-> ProductDiscounts(eligibleProducts, finalDiscount),
          items |-> Len(eligibleProducts)]

calculateCouponDiscount(code, localCart) ==
    /\ answer = NoAnswer
    /\ answer' = [handler |-> "calculateCouponDiscount",
                  status |-> PreviewStatus(coupons, code, localCart),
                  order |-> 0, event |-> "", session |-> 0, at |-> "",
                  report |-> PreviewReport(coupons, code, localCart)]
    /\ UNCHANGED <<carts, coupons, orders, invoices, sessions, minute, evaluation, request, co, wh,
                   history>>

(***************************************************************************)
(* The system.                                                             *)
(***************************************************************************)
CouponCodes == {NoCoupon, "FLAT", "FREE", "BOGUS"}
Regions == {"IN", "US", "fail"}
RateAnswers == {"rate", "norate", "fail"}
Signatures == {"good", "bad", "missing"}

\* The answer has gone out; the model keeps it for one state only.
Respond ==
    /\ answer # NoAnswer
    /\ answer' = NoAnswer
    /\ UNCHANGED <<carts, coupons, orders, invoices, sessions, minute, evaluation, request, co, wh,
                   history>>

\* No handler is in flight.
Quiet == Active = 0

\* Requests are served one at a time: a request arrives when no handler
\* is in flight.
Next ==
    \/ Respond
    \/ Tick
    \/ \E u \in Users : syncOrAddToCart(u)
    \/ \E code \in CouponCodes, localCart \in LocalCarts :
            Quiet /\ calculateCouponDiscount(code, localCart)
    \/ \E r \in Slots, u \in Users \cup {NoUser}, code \in CouponCodes :
            Quiet /\ CO_Receive(r, u, code)
    \/ \E r \in Slots : CO_ReadCart(r)
    \/ \E r \in Slots, geo \in Regions, fx \in RateAnswers : CO_Currency(r, geo, fx)
    \/ \E r \in Slots : CO_ApplyCoupon(r)
    \/ \E r \in Slots, ok \in BOOLEAN : CO_Session(r, ok)
    \/ \E r \in Slots : CO_SaveOrder(r)
    \/ \E r \in Slots : CI_FindOrder(r)
    \/ \E r \in Slots : CI_FindInvoice(r)
    \/ \E r \in Slots : CI_Save(r)
    \/ \E r \in Slots : CI_LinkOrder(r)
    \/ \E r \in Slots : CO_ClearCart(r)
    \/ \E h \in Slots, type \in EventTypes, sid \in 1..MaxSessions,
          paid \in BOOLEAN, sig \in Signatures :
            Quiet /\ WH_Receive(h, type, sid, paid, sig)
    \/ \E h \in Slots : WH_Completed(h)
    \/ \E h \in Slots : WH_Expired(h)
    \/ \E h \in Slots : WH_FindInvoice(h)
    \/ \E h \in Slots : WH_SyncInvoice(h)
    \/ \E h \in Slots : WH_FindCoupon(h)
    \/ \E h \in Slots : WH_SaveCoupon(h)
    \/ \E h \in Slots : WH_FindCart(h)
    \/ \E h \in Slots, ok \in BOOLEAN : WH_NewSession(h, ok)
    \/ \E h \in Slots : WH_Overwrite(h)

Spec == Init /\ [][Next]_vars

\* Handlers interleave at their awaits: up to MaxActive of them are in
\* flight at a time, for one user who checks out with the FLAT coupon from
\* a region that pays in usd.
RaceUsers == {"u1"}
RaceCodes == {"FLAT"}
RaceRegions == {"US"}

NextRace ==
    \/ Respond
    \/ Tick
    \/ \E u \in RaceUsers : syncOrAddToCart(u)
    \/ \E r \in Slots, u \in RaceUsers, code \in RaceCodes : CO_Receive(r, u, code)
    \/ \E r \in Slots : CO_ReadCart(r)
    \/ \E r \in Slots, geo \in RaceRegions, fx \in RateAnswers : CO_Currency(r, geo, fx)
    \/ \E r \in Slots : CO_ApplyCoupon(r)
    \/ \E r \in Slots, ok \in BOOLEAN : CO_Session(r, ok)
    \/ \E r \in Slots : CO_SaveOrder(r)
    \/ \E r \in Slots : CI_FindOrder(r)
    \/ \E r \in Slots : CI_FindInvoice(r)
    \/ \E r \in Slots : CI_Save(r)
    \/ \E r \in Slots : CI_LinkOrder(r)
    \/ \E r \in Slots : CO_ClearCart(r)
    \/ \E h \in Slots, type \in EventTypes, sid \in 1..MaxSessions, paid \in BOOLEAN :
            WH_Receive(h, type, sid, paid, "good")
    \/ \E h \in Slots : WH_Completed(h)
    \/ \E h \in Slots : WH_Expired(h)
    \/ \E h \in Slots : WH_FindInvoice(h)
    \/ \E h \in Slots : WH_SyncInvoice(h)
    \/ \E h \in Slots : WH_FindCoupon(h)
    \/ \E h \in Slots : WH_SaveCoupon(h)
    \/ \E h \in Slots : WH_FindCart(h)
    \/ \E h \in Slots, ok \in BOOLEAN : WH_NewSession(h, ok)
    \/ \E h \in Slots : WH_Overwrite(h)

SpecRace == Init /\ [][NextRace]_vars

\* CouponSchema.index({expiresAt: 1}, {expireAfterSeconds: 0}): the store
\* removes a coupon document once its expiry date has passed.
expireCoupon(c) ==
    /\ answer = NoAnswer
    /\ c \in DOMAIN coupons
    /\ coupons' = [d \in DOMAIN coupons \ {c} |-> coupons[d]]
    /\ UNCHANGED <<carts, orders, invoices, sessions, minute, evaluation, request, answer, co, wh,
                   history>>

\* Requests are served one at a time, for one user who checks out with the
\* FLAT coupon, and the coupon may expire between two requests.
NextExpiry ==
    \/ Respond
    \/ Tick
    \/ \E c \in RaceCodes : Quiet /\ expireCoupon(c)
    \/ \E u \in RaceUsers : syncOrAddToCart(u)
    \/ \E r \in Slots, u \in RaceUsers, code \in RaceCodes :
            Quiet /\ CO_Receive(r, u, code)
    \/ \E r \in Slots : CO_ReadCart(r)
    \/ \E r \in Slots, geo \in RaceRegions, fx \in RateAnswers : CO_Currency(r, geo, fx)
    \/ \E r \in Slots : CO_ApplyCoupon(r)
    \/ \E r \in Slots, ok \in BOOLEAN : CO_Session(r, ok)
    \/ \E r \in Slots : CO_SaveOrder(r)
    \/ \E r \in Slots : CI_FindOrder(r)
    \/ \E r \in Slots : CI_FindInvoice(r)
    \/ \E r \in Slots : CI_Save(r)
    \/ \E r \in Slots : CI_LinkOrder(r)
    \/ \E r \in Slots : CO_ClearCart(r)
    \/ \E h \in Slots, type \in EventTypes, sid \in 1..MaxSessions, paid \in BOOLEAN :
            Quiet /\ WH_Receive(h, type, sid, paid, "good")
    \/ \E h \in Slots : WH_Completed(h)
    \/ \E h \in Slots : WH_Expired(h)
    \/ \E h \in Slots : WH_FindInvoice(h)
    \/ \E h \in Slots : WH_SyncInvoice(h)
    \/ \E h \in Slots : WH_FindCoupon(h)
    \/ \E h \in Slots : WH_SaveCoupon(h)
    \/ \E h \in Slots : WH_FindCart(h)
    \/ \E h \in Slots, ok \in BOOLEAN : WH_NewSession(h, ok)
    \/ \E h \in Slots : WH_Overwrite(h)

SpecExpiry == Init /\ [][NextExpiry]_vars

\* OrderSchema paymentStatus: the values an administrator sets.
PaymentStatuses == {"Unpaid", "Paid", "Refunded", "Failed"}

\* updateOrder, order.controller.ts, with a paymentStatus in its body and
\* served with no other handler in flight, its awaits taken together:
\* updateInvoicePaymentStatus(orderId, paymentStatus), then
\* Order.findByIdAndUpdate(orderId, updateData), then 200.
updateOrder(o, paymentStatus) ==
    /\ answer = NoAnswer
    /\ o \in 1..Len(orders)
    /\ LET i == InvoiceOf(invoices, o) IN
       invoices' = IF i = 0 THEN invoices
                   ELSE [invoices EXCEPT ![i].status = SyncedStatus(paymentStatus)]
    /\ orders' = [orders EXCEPT ![o].paymentStatus = paymentStatus]
    /\ answer' = [handler |-> "updateOrder", status |-> 200, order |-> o,
                  event |-> "", session |-> 0, at |-> "", report |-> NoReport]
    /\ UNCHANGED <<carts, coupons, sessions, minute, evaluation, request, co, wh,
                   history>>

\* Requests are served one at a time, for one user who checks out with the
\* FLAT coupon, and an administrator updates the payment status of orders.
NextAdmin ==
    \/ Respond
    \/ Tick
    \/ \E o \in 1..MaxSessions, paymentStatus \in PaymentStatuses :
            Quiet /\ updateOrder(o, paymentStatus)
    \/ \E u \in RaceUsers : syncOrAddToCart(u)
    \/ \E r \in Slots, u \in RaceUsers, code \in RaceCodes :
            Quiet /\ CO_Receive(r, u, code)
    \/ \E r \in Slots : CO_ReadCart(r)
    \/ \E r \in Slots, geo \in RaceRegions, fx \in RateAnswers : CO_Currency(r, geo, fx)
    \/ \E r \in Slots : CO_ApplyCoupon(r)
    \/ \E r \in Slots, ok \in BOOLEAN : CO_Session(r, ok)
    \/ \E r \in Slots : CO_SaveOrder(r)
    \/ \E r \in Slots : CI_FindOrder(r)
    \/ \E r \in Slots : CI_FindInvoice(r)
    \/ \E r \in Slots : CI_Save(r)
    \/ \E r \in Slots : CI_LinkOrder(r)
    \/ \E r \in Slots : CO_ClearCart(r)
    \/ \E h \in Slots, type \in EventTypes, sid \in 1..MaxSessions, paid \in BOOLEAN :
            Quiet /\ WH_Receive(h, type, sid, paid, "good")
    \/ \E h \in Slots : WH_Completed(h)
    \/ \E h \in Slots : WH_Expired(h)
    \/ \E h \in Slots : WH_FindInvoice(h)
    \/ \E h \in Slots : WH_SyncInvoice(h)
    \/ \E h \in Slots : WH_FindCoupon(h)
    \/ \E h \in Slots : WH_SaveCoupon(h)
    \/ \E h \in Slots : WH_FindCart(h)
    \/ \E h \in Slots, ok \in BOOLEAN : WH_NewSession(h, ok)
    \/ \E h \in Slots : WH_Overwrite(h)

SpecAdmin == Init /\ [][NextAdmin]_vars

\* The cart service: the users fill their carts, empty them and check
\* them out, one request at a time; an administrator empties the cart of
\* a customer.
NextCart ==
    \/ Respond
    \/ Tick
    \/ \E u \in Users : syncOrAddToCart(u)
    \/ \E u \in Users, customerId \in Users \cup {NoUser}, permitted \in BOOLEAN :
            Quiet /\ emptyCart(u, customerId, permitted)
    \/ \E r \in Slots, u \in Users : Quiet /\ CO_Receive(r, u, NoCoupon)
    \/ \E r \in Slots : CO_ReadCart(r)
    \/ \E r \in Slots, geo \in RaceRegions, fx \in RateAnswers : CO_Currency(r, geo, fx)
    \/ \E r \in Slots : CO_ApplyCoupon(r)
    \/ \E r \in Slots, ok \in BOOLEAN : CO_Session(r, ok)
    \/ \E r \in Slots : CO_SaveOrder(r)
    \/ \E r \in Slots : CI_FindOrder(r)
    \/ \E r \in Slots : CI_FindInvoice(r)
    \/ \E r \in Slots : CI_Save(r)
    \/ \E r \in Slots : CI_LinkOrder(r)
    \/ \E r \in Slots : CO_ClearCart(r)

SpecCart == Init /\ [][NextCart]_vars

(***************************************************************************)
(* The coupon evaluator on its own: calculateDiscount is called once with  *)
(* a coupon the Coupon schema accepts and a cart the cart service has      *)
(* saved (at least one line item, totalPrice the sum of the line totals).  *)
(***************************************************************************)
\* Line items: the product, a quantity, a word count and a line total, a
\* price that is not negative.
EvalItems ==
    [product : Products, quantity : {1, 2}, wordCount : {100, 300},
     totalPrice : {0, 100, 200}]

EvalCarts ==
    {[products |-> items, totalPrice |-> SumPrices(items)] :
        items \in UNION {[1..n -> EvalItems] : n \in 1..MaxEvalItems}}

\* discountType and discountValue: a percentage is at most 100.
EvalDiscounts ==
    {[type |-> "percentage", value |-> 50], [type |-> "percentage", value |-> 100],
     [type |-> "flat", value |-> 100], [type |-> "flat", value |-> 200]}

EvalCoupons ==
    {[CouponDoc("EVAL", d.type, d.value, Infinity, Infinity) EXCEPT
            !.couponApplicableOn = on,
            !.specificProducts = IF on = "specificProducts" THEN {"p1"} ELSE {},
            !.productCategories = IF on = "productCategories" THEN {"k2"} ELSE {},
            !.couponType = type,
            !.minQuantity = IF type = "quantityBased" THEN 2 ELSE 1,
            !.minOrderAmount = floor,
            !.maxDiscountAmount = cap,
            !.maxWordCount = words] :
        d \in EvalDiscounts,
        on \in {"allProducts", "specificProducts", "productCategories"},
        type \in {"amountBased", "quantityBased"},
        floor \in {100, 300},
        cap \in {50, Infinity},
        words \in {0, 200}}

InitEval ==
    /\ carts = <<>>
    /\ coupons = InitCoupons
    /\ orders = <<>>
    /\ invoices = <<>>
    /\ sessions = <<>>
    /\ minute = 0
    /\ answer = NoAnswer
    /\ co = [r \in Slots |-> IdleCo]
    /\ wh = [h \in Slots |-> IdleWh]
    /\ history = History
    /\ evaluation \in {[called |-> FALSE, coupon |-> c, cart |-> k,
                         result |-> EvalError("")] :
                            c \in EvalCoupons, k \in EvalCarts}
    /\ request = NoRequest

\* The call: calculateDiscount(coupon, cartData) returns or throws.
Evaluate ==
    /\ ~evaluation.called
    /\ evaluation' = [evaluation EXCEPT
                        !.called = TRUE,
                        !.result = calculateDiscount(evaluation.coupon,
                                                     evaluation.cart)]
    /\ UNCHANGED <<carts, coupons, orders, invoices, sessions, minute, answer,
                   co, wh, history, request>>

NextEval == Evaluate

SpecEval == InitEval /\ [][NextEval]_vars

(***************************************************************************)
(* The coupon preview on its own: one coupon is stored, and clients send   *)
(* carts for a preview, two line items of one product included             *)
(* (syncOrAddToCart pushes the items it is sent without merging them).     *)
(***************************************************************************)
PreviewItems ==
    [product : Products, quantity : {1}, wordCount : {100},
     totalPrice : {100, 700, 1000}]

PreviewCarts ==
    {Recalculated([userId |-> NoUser, products |-> items,
                   totalQuantity |-> 0, totalPrice |-> 0]) :
        items \in UNION {[1..n -> PreviewItems] : n \in 0..MaxEvalItems}}

PreviewCoupons ==
    {[CouponDoc("EVAL", d.type, d.value, Infinity, Infinity) EXCEPT
            !.couponApplicableOn = on,
            !.specificProducts = IF on = "specificProducts" THEN {"p1"} ELSE {},
            !.minOrderAmount = floor,
            !.maxDiscountAmount = cap] :
        d \in {[type |-> "percentage", value |-> 50],
               [type |-> "percentage", value |-> 100],
               [type |-> "flat", value |-> 100]},
        on \in {"allProducts", "specificProducts"},
        floor \in {200, 800},
        cap \in {300, Infinity}}

PreviewCodes == {NoCoupon, "EVAL", "BOGUS"}

InitPreview ==
    /\ carts = <<>>
    /\ coupons \in {[c \in {"EVAL"} |-> doc] : doc \in PreviewCoupons}
    /\ orders = <<>>
    /\ invoices = <<>>
    /\ sessions = <<>>
    /\ minute = 0
    /\ answer = NoAnswer
    /\ co = [r \in Slots |-> IdleCo]
    /\ wh = [h \in Slots |-> IdleWh]
    /\ history = History
    /\ evaluation = NoEvaluation
    /\ request = NoRequest

NextPreview ==
    \E code \in PreviewCodes, localCart \in PreviewCarts :
        calculateCouponDiscount(code, localCart)

SpecPreview == InitPreview /\ [][NextPreview]_vars

(***************************************************************************)
(* The way of a webhook request to its handler: the middleware the         *)
(* application installs for every request (app.ts), then the middleware of *)
(* the route (order.routes.ts), then stripeWebhook, which hands req.body   *)
(* to the signature verification.                                          *)
(***************************************************************************)
ContentTypes == {"application/json", "application/json; charset=utf-8", "text/plain"}

\* The bytes of a request body: event documents, and bytes that are no JSON.
Bodies == {"completed cs_1", "completed cs_2", "expired cs_1", "expired cs_2",
           "not json"}

\* The type both parsers are configured with, express.json() by default and
\* express.raw({type: "application/json"}): parameters do not matter.
IsJson(contentType) ==
    contentType \in {"application/json", "application/json; charset=utf-8"}

\* A body parser reads the body unless an earlier one has read it already
\* or the content type is not its own.
Reads(req) == ~req._body /\ IsJson(req.contentType)

WH_Arrive(contentType, bytes, sig) ==
    /\ request = NoRequest
    /\ request' = [NoRequest EXCEPT !.pc = "json", !.contentType = contentType,
                                    !.bytes = bytes, !.signature = sig]
    /\ UNCHANGED <<carts, coupons, orders, invoices, sessions, minute, answer, co, wh,
                   history, evaluation>>

\* app.use(express.json()): the body is parsed and req.body is the object;
\* bytes that are no JSON end the request with the parser's error.
expressJson ==
    /\ request.pc = "json"
    /\ request' = IF ~Reads(request) THEN [request EXCEPT !.pc = "raw"]
                  ELSE IF request.bytes = "not json"
                       THEN [request EXCEPT !.pc = "rejected", !._body = TRUE]
                  ELSE [request EXCEPT !.pc = "raw", !._body = TRUE,
                                       !.body = [kind |-> "object", of |-> request.bytes]]
    /\ UNCHANGED <<carts, coupons, orders, invoices, sessions, minute, answer, co, wh,
                   history, evaluation>>

\* express.raw({type: "application/json"}) of the route: req.body is a Buffer
\* of the bytes, if the body is still unread.
expressRaw ==
    /\ request.pc = "raw"
    /\ request' = IF ~Reads(request) THEN [request EXCEPT !.pc = "handler"]
                  ELSE [request EXCEPT !.pc = "handler", !._body = TRUE,
                                       !.body = [kind |-> "buffer", of |-> request.bytes]]
    /\ UNCHANGED <<carts, coupons, orders, invoices, sessions, minute, answer, co, wh,
                   history, evaluation>>

\* stripeWebhook up to the call constructEvent(req.body, sig, secret).
WH_ConstructEvent ==
    /\ request.pc = "handler"
    /\ request' = IF request.signature = "missing" THEN [request EXCEPT !.pc = "answered"]
                  ELSE [request EXCEPT !.pc = "verify", !.payload = request.body]
    /\ UNCHANGED <<carts, coupons, orders, invoices, sessions, minute, answer, co, wh,
                   history, evaluation>>

NextPipeline ==
    \/ \E contentType \in ContentTypes, bytes \in Bodies, sig \in Signatures :
            WH_Arrive(contentType, bytes, sig)
    \/ expressJson
    \/ expressRaw
    \/ WH_ConstructEvent

SpecPipeline == Init /\ [][NextPipeline]_vars

(***************************************************************************)
(* Properties.                                                             *)
(***************************************************************************)
Completed == "checkout.session.completed"

\* The sessions that carry coupon c as metadata.
SessionsOf(c) == {n \in 1..Len(sessions) : sessions[n].couponId = c}

\* The invoices filed under order o.
InvoicesOf(o) == {i \in 1..Len(invoices) : invoices[i].orderId = o}

\* Session s has been re-issued: an expired event for it opened a new
\* session, and the handler of that event has ended.
Reissued(s) ==
    \E n \in 1..Len(sessions) :
        /\ sessions[n].reissueOf = s
        /\ \A h \in Slots : wh[h].newSession # n

\* An order carries session s and is Paid.
PaidUnder(s) ==
    /\ OrderByPayment(orders, s) # 0
    /\ orders[OrderByPayment(orders, s)].paymentStatus = "Paid"

\* C1: the paid completed event of one session, delivered any number of
\* times, counts one use of the coupon: while a single session carries a
\* coupon, its usedCount and every user's usageCount are at most 1.
C1_ReplayCountsOnce ==
    \A c \in CouponIds :
        Cardinality(SessionsOf(c)) = 1 =>
            /\ coupons[c].usedCount <= 1
            /\ \A k \in 1..Len(coupons[c].userUsage) :
                    coupons[c].userUsage[k].usageCount <= 1

\* C2: when the handler of a paid completed event ends and an earlier
\* delivery of that event had settled an order, that order and its invoice
\* are Paid.
C2_ReplayLeavesPaid ==
    [][\A h \in Slots :
            (wh[h].type = Completed /\ wh'[h].pc = "idle") =>
                \A e \in history.settled :
                    e.session = wh[h].session =>
                        /\ orders'[e.order].paymentStatus = "Paid"
                        /\ \A i \in 1..Len(invoices') :
                                invoices'[i].orderId = e.order =>
                                    invoices'[i].status = "Paid"]_vars

\* C3: once an expired event has re-issued a session, the first await of a
\* paid completed event for the old session matches no order, changes no
\* order, invoice or coupon and ends the handler; for the new session it
\* matches the order and sets it Paid.
C3_ReissuedSessionMatchesNewId ==
    [][\A h \in Slots :
            (wh[h].pc = "completed" /\ wh'[h].pc # "completed") =>
                LET s == wh[h].session IN
                /\ Reissued(s) =>
                        /\ UNCHANGED <<orders, invoices, coupons>>
                        /\ wh'[h].pc = "idle"
                /\ (sessions[s].reissueOf # 0 /\ ~Reissued(s)) =>
                        /\ OrderByPayment(orders, s) # 0
                        /\ orders'[OrderByPayment(orders, s)].paymentStatus = "Paid"]_vars

\* A paid completed event for a re-issued session has just been answered,
\* and the order carries the new session and is Paid.
C3_OldAfterNewDelivered ==
    /\ answer.handler = "stripeWebhook"
    /\ answer.event = Completed
    /\ answer.session # 0
    /\ Reissued(answer.session)
    /\ \E n \in 1..Len(sessions) :
            sessions[n].reissueOf = answer.session /\ PaidUnder(n)

\* C4: Paid is terminal: no step takes an order from Paid to another
\* payment status.
C4_PaidIsTerminal ==
    [][\A o \in 1..Len(orders) :
            orders[o].paymentStatus = "Paid" => orders'[o].paymentStatus = "Paid"]_vars

\* C5: the coupon documents change only in the step that saves the usage
\* of a paid completed event; no step of createOrder, whatever it answers,
\* and no coupon preview changes them.
C5_CountersChangeOnlyOnPaidCompleted ==
    [][/\ coupons' # coupons =>
            \E h \in Slots : /\ wh[h].pc = "saveCoupon"
                             /\ wh[h].type = Completed
                             /\ wh[h].paymentStatus = "Paid"
                             /\ wh'[h].pc = "idle"
       /\ co' # co => coupons' = coupons
       /\ (answer = NoAnswer
           /\ answer'.handler \in {"createOrder", "calculateCouponDiscount"}) =>
                coupons' = coupons]_vars

\* createOrder has just answered 201 for an order with a coupon, and the
\* coupon counts no use.
C5_CheckoutWithCouponAnswered ==
    /\ answer.handler = "createOrder"
    /\ answer.status = 201
    /\ orders[answer.order].couponId # NoCoupon
    /\ coupons[orders[answer.order].couponId].usedCount = 0
    /\ coupons[orders[answer.order].couponId].userUsage = <<>>

\* The orders settled by the paid completed event of a session that
\* carries coupon c.
SettledWith(c) ==
    {e.order : e \in {x \in history.settled : sessions[x.session].couponId = c}}

\* C6: no coupon is used beyond its limits: usedCount <= totalUsageLimit,
\* and every user's usageCount <= usageLimitPerUser.  It is stated for the
\* coupons whose every counted use belongs to a settled order of its own,
\* which leaves the repeated deliveries of C1 and the re-issued sessions of
\* C4 aside.
C6_UsageWithinLimits ==
    \A c \in CouponIds :
        coupons[c].usedCount <= Cardinality(SettledWith(c)) =>
            /\ coupons[c].usedCount <= coupons[c].totalUsageLimit
            /\ \A k \in 1..Len(coupons[c].userUsage) :
                    coupons[c].userUsage[k].usageCount <= coupons[c].usageLimitPerUser

\* C7: with no handler in flight, an invoice is Paid exactly when its
\* order is Paid.
C7_InvoiceTracksOrder ==
    Active = 0 =>
        \A i \in 1..Len(invoices) :
            invoices[i].status = "Paid"
                <=> orders[invoices[i].orderId].paymentStatus = "Paid"

\* C8: no order has two invoices; an order createOrder answered 201 for has
\* exactly one, and createInvoice called for it again finds that invoice
\* and throws the duplicate error.
C8_OneInvoicePerOrder ==
    /\ \A o \in 1..Len(orders) : Cardinality(InvoicesOf(o)) <= 1
    /\ \A o \in history.created :
            /\ Cardinality(InvoicesOf(o)) = 1
            /\ DuplicateInvoice(invoices, o)

\* createOrder has answered 201 for two orders, each with its invoice.
C8_TwoOrdersInvoiced ==
    /\ Cardinality(history.created) = 2
    /\ Len(invoices) = 2

\* C9: the step that saves an order saves it Paid, with no payment id or
\* url and with no session opened by the request, when the final price is
\* 0; else Unpaid with the id and url of the session the request opened.
\* The step that saves the invoice of a zero-total order saves it Paid.
C9_ZeroTotalFastPath ==
    [][/\ Len(orders') > Len(orders) =>
            LET n == orders'[Len(orders')] IN
            \E r \in Slots :
                /\ co[r].pc = "saveOrder"
                /\ co'[r].order = Len(orders')
                /\ IF n.finalPrice = 0
                   THEN /\ n.paymentStatus = "Paid"
                        /\ n.paymentId = 0
                        /\ n.paymentUrl = 0
                        /\ co[r].session = 0
                   ELSE /\ n.paymentStatus = "Unpaid"
                        /\ co[r].session \in 1..Len(sessions)
                        /\ n.paymentId = co[r].session
                        /\ n.paymentUrl = co[r].session
       /\ Len(invoices') > Len(invoices) =>
            LET inv == invoices'[Len(invoices')] IN
            orders[inv.orderId].finalPrice = 0 => inv.status = "Paid"]_vars

\* createOrder has answered 201 for a zero-total order: the order and its
\* invoice are Paid and the gateway has opened no session.
C9_ZeroTotalOrderCreated ==
    /\ answer.handler = "createOrder"
    /\ answer.status = 201
    /\ orders[answer.order].finalPrice = 0
    /\ orders[answer.order].paymentStatus = "Paid"
    /\ \E i \in InvoicesOf(answer.order) : invoices[i].status = "Paid"
    /\ sessions = <<>>

\* C10: a webhook request whose signature header is missing or fails the
\* verification is answered 400 in its first step, which starts no handler
\* and changes no order, invoice or coupon.
C10_BadSignatureRejected ==
    [][\A h \in Slots, type \in EventTypes, sid \in 1..MaxSessions,
          paid \in BOOLEAN, sig \in Signatures \ {"good"} :
            WH_Receive(h, type, sid, paid, sig) =>
                /\ answer'.handler = "stripeWebhook"
                /\ answer'.status = 400
                /\ UNCHANGED <<orders, invoices, coupons, carts, sessions, wh>>]_vars

\* A webhook request has just been answered 400 while an order awaits its
\* payment.
C10_RejectedWithOrderUnpaid ==
    /\ answer.handler = "stripeWebhook"
    /\ answer.status = 400
    /\ \E o \in 1..Len(orders) : orders[o].paymentStatus = "Unpaid"

\* C11: every webhook request that passes the signature check is answered
\* 200, whatever its event type and whatever is stored: no handler of a
\* verified event ends with another answer or with none.
C11_VerifiedAnswered200 ==
    [][(answer = NoAnswer /\ answer'.handler = "stripeWebhook"
            /\ answer'.event # "") => answer'.status = 200]_vars

\* C12: a failed geo-IP or exchange-rate lookup never aborts checkout: the
\* step that looks up the currency and the rate gives no answer, and the
\* request goes on to its coupon step with a currency and a rate.
C12_LookupNeverAborts ==
    [][\A r \in Slots :
            (co[r].pc = "currency" /\ co'[r] # co[r]) =>
                /\ answer' = NoAnswer
                /\ co'[r].pc = "coupon"
                /\ co'[r].currency \in {"usd", "inr"}
                /\ co'[r].exchangeRate > 0]_vars

\* C13: when the gateway fails to open the session, createOrder answers 500
\* and nothing is persisted: the request has saved no order and no invoice
\* before that step (no step up to it writes a collection), the step itself
\* changes no order, invoice, cart or coupon and opens no session, and the
\* cart still holds items.
C13_SessionFailureChangesNothing ==
    [][\A r \in Slots :
            /\ (co[r].pc = "session" /\ co'[r].pc = "idle") =>
                    /\ answer' = Answered(co[r], 500)
                    /\ co[r].order = 0
                    /\ carts'[co[r].cart].products # <<>>
                    /\ UNCHANGED <<orders, invoices, carts, coupons, sessions>>
            /\ (co[r].pc \in {"idle", "readCart", "currency", "coupon"}
                    /\ co'[r] # co[r]) =>
                    UNCHANGED <<orders, invoices, carts, coupons, sessions>>]_vars

\* createOrder has just answered 500 at the step that opens the session,
\* for a user whose cart holds its items and who has no order.
C13_SessionFailed ==
    /\ answer.handler = "createOrder"
    /\ answer.status = 500
    /\ answer.at = "session"
    /\ \E u \in Users :
            /\ CartOf(carts, u) # 0
            /\ carts[CartOf(carts, u)].products # <<>>
            /\ \A o \in 1..Len(orders) : orders[o].userId # u

\* C14: when a coupon code is given and its evaluation fails, the coupon
\* step ends createOrder with an error answer; the request has opened no
\* session and saved no order, the step changes no order, invoice,
\* session, cart or coupon, and the cart still holds items.
C14_CouponFailureCreatesNothing ==
    [][\A r \in Slots :
            (co[r].pc = "coupon" /\ co'[r] # co[r]) =>
                LET cart == [products |-> co[r].products,
                             totalPrice |-> co[r].totalPrice]
                    failed == /\ co[r].couponCode # NoCoupon
                              /\ ~applyCoupon(coupons, co[r].couponCode, cart,
                                              co[r].userId).ok
                IN  /\ failed <=> co'[r].pc = "idle"
                    /\ failed =>
                            /\ answer'.handler = "createOrder"
                            /\ answer'.status >= 400
                            /\ co[r].session = 0
                            /\ co[r].order = 0
                            /\ carts'[co[r].cart].products # <<>>
                            /\ UNCHANGED <<orders, invoices, sessions, carts,
                                           coupons>>]_vars

\* createOrder has just answered with an error at its coupon step, the
\* FLAT coupon having reached its limit, while a cart holds its items and
\* the only order is the one that used the coupon.
C14_CouponRejected ==
    /\ answer.handler = "createOrder"
    /\ answer.status >= 400
    /\ answer.at = "coupon"
    /\ TotalLimitReached(coupons["FLAT"])
    /\ Len(orders) = 1
    /\ \E u \in Users :
            CartOf(carts, u) # 0 /\ carts[CartOf(carts, u)].products # <<>>

\* C15: createOrder answers 401 to a request without a user, 400 when the
\* cart is empty and 400 when the coupon given is invalid.
C15_CheckoutStatuses ==
    answer.handler = "createOrder" =>
        /\ answer.at = "idle" => answer.status = 401
        /\ answer.at = "readCart" => answer.status = 400
        /\ answer.at = "coupon" => answer.status = 400

\* C16: every successful evaluation of a percentage coupon, 100 included,
\* gives 0 <= discount <= eligibleTotal * discountValue / 100 and
\* discount <= maxDiscountAmount, eligibleTotal being the sum of the line
\* totals of the eligible items.
C16_PercentageWithinBounds ==
    (evaluation.called /\ evaluation.result.ok
        /\ evaluation.coupon.discountType = "percentage") =>
            LET coupon == evaluation.coupon
                discount == evaluation.result.discount
                eligibleTotal == SumPrices(EligibleProducts(coupon, evaluation.cart))
            IN  /\ 0 <= discount
                /\ discount * 100 <= eligibleTotal * coupon.discountValue
                /\ discount <= coupon.maxDiscountAmount

Qualifying(coupon, cart) ==
    {i \in 1..Len(cart.products) :
        LET p == cart.products[i] IN
        /\ coupon.couponApplicableOn = "specificProducts" =>
                p.product \in coupon.specificProducts
        /\ coupon.couponApplicableOn = "productCategories" =>
                CategoryOf(p.product) \in coupon.productCategories
        /\ coupon.maxWordCount # 0 => p.wordCount <= coupon.maxWordCount}

\* C18: every successful evaluation of a 100%-off coupon discounts one line
\* item: an eligible item of quantity 1 that passes the maxWordCount filter
\* and has the lowest line total of the qualifying items; the discount is
\* that line's total and appliedTo holds that item only.
C18_FullDiscountOnSingleItem ==
    (evaluation.called /\ evaluation.result.ok
        /\ evaluation.coupon.discountType = "percentage"
        /\ evaluation.coupon.discountValue = 100) =>
            LET cart == evaluation.cart
                qualifying == Qualifying(evaluation.coupon, cart)
            IN  \E i \in qualifying :
                    /\ cart.products[i].quantity = 1
                    /\ \A j \in qualifying :
                            cart.products[i].totalPrice <= cart.products[j].totalPrice
                    /\ evaluation.result.discount = cart.products[i].totalPrice
                    /\ evaluation.result.appliedTo = <<cart.products[i].product>>

\* A 100%-off coupon with a word limit has discounted a line item while a
\* cheaper item of the cart is over the limit.
C18_CheaperItemOverWordLimit ==
    /\ evaluation.called
    /\ evaluation.result.ok
    /\ evaluation.coupon.discountType = "percentage"
    /\ evaluation.coupon.discountValue = 100
    /\ evaluation.coupon.maxWordCount # 0
    /\ \E j \in 1..Len(evaluation.cart.products) :
            /\ evaluation.cart.products[j].wordCount > evaluation.coupon.maxWordCount
            /\ evaluation.cart.products[j].totalPrice < evaluation.result.discount

\* C19: percentage and flat coupons both require the order floor, for
\* every discountValue: no evaluation succeeds for a cart whose totalPrice
\* is below coupon.minOrderAmount, and such a cart, when the evaluation
\* does not fail on the configuration or on eligibility first, fails with
\* the below-minimum error.
C19_OrderFloorRequired ==
    (evaluation.called
        /\ evaluation.cart.totalPrice < evaluation.coupon.minOrderAmount) =>
            /\ ~evaluation.result.ok
            /\ evaluation.result.error \notin {"invalidConfiguration", "ineligible"} =>
                    evaluation.result.error = "belowMinimum"

\* C20: a checkout made in the same minute as an earlier one succeeds as
\* well: the step that saves the order of a valid checkout persists it,
\* whatever order numbers the stored orders have, and the request goes on.
C20_SameMinuteOrdersSaved ==
    [][\A r \in Slots :
            (co[r].pc = "saveOrder" /\ co'[r] # co[r]) =>
                /\ Len(orders') = Len(orders) + 1
                /\ orders'[Len(orders')].userId = co[r].userId
                /\ co'[r].pc = "findOrder"
                /\ answer' = NoAnswer]_vars

\* InvoiceSchema status: enum
InvoiceStatuses == {"Unpaid", "Paid", "Overdue", "Cancelled"}

\* C21: whatever payment status a webhook event or an administrator syncs
\* to it, the stored status of an invoice is one of Unpaid, Paid, Overdue
\* and Cancelled.
C21_InvoiceStatusInEnum ==
    \A i \in 1..Len(invoices) : invoices[i].status \in InvoiceStatuses

RECURSIVE SumOver(_, _)
\* The sum of the amounts a productDiscounts object holds under the keys S.
SumOver(f, S) ==
    IF S = {} THEN 0
    ELSE LET k == CHOOSE x \in S : TRUE IN f[k] + SumOver(f, S \ {k})

\* The amounts a preview reports per product, added up.
ReportedSum == SumOver(answer.report.productDiscounts,
                       DOMAIN answer.report.productDiscounts)

\* C22: in every preview answered 200 for a coupon, the amounts reported in
\* productDiscounts add up to the reported couponDiscount, give or take one
\* cent for each line item the discount was distributed over, two line
\* items of one product included.
C22_SharesSumToDiscount ==
    (/\ answer.handler = "calculateCouponDiscount"
     /\ answer.status = 200
     /\ answer.report # NoReport) =>
        /\ ReportedSum - answer.report.couponDiscount <= answer.report.items * Cent
        /\ answer.report.couponDiscount - ReportedSum <= answer.report.items * Cent

\* C23: what stripeWebhook hands to the signature verification is the raw
\* body of the request, a Buffer of exactly the bytes received: no earlier
\* middleware has parsed or replaced it.
C23_PayloadIsRawBody ==
    request.pc = "verify" =>
        request.payload = [kind |-> "buffer", of |-> request.bytes]

\* C24: when two createOrder requests of one user have both read the same
\* cart and neither has cleared it yet, they have not both opened a gateway
\* session, nor both saved an Order, nor both an Invoice for it.
C24_OneCheckoutPerCart ==
    \A r1, r2 \in Slots :
        (/\ r1 # r2
         /\ co[r1].userId # NoUser
         /\ co[r1].userId = co[r2].userId
         /\ co[r1].cart # 0
         /\ co[r1].cart = co[r2].cart
         /\ co[r1].products = co[r2].products) =>
            /\ ~(co[r1].session # 0 /\ co[r2].session # 0)
            /\ ~(co[r1].order # 0 /\ co[r2].order # 0)
            /\ ~(/\ co[r1].order # 0 /\ InvoiceOf(invoices, co[r1].order) # 0
                 /\ co[r2].order # 0 /\ InvoiceOf(invoices, co[r2].order) # 0)

RECURSIVE UsageSum(_)
\* The usageCount values of a coupon's userUsage records, added up.
UsageSum(userUsage) ==
    IF userUsage = <<>> THEN 0
    ELSE Head(userUsage).usageCount + UsageSum(Tail(userUsage))

\* The call of recordCouponUsage in slot h is the only one for its order:
\* no event has settled that order before, none in flight concerns it.
OnlyCallForOrder(h) ==
    /\ wh[h].order \notin {e.order : e \in history.settled}
    /\ \A g \in Slots \ {h} : wh[g].order # wh[h].order

\* C25: no update of a coupon's counters is lost: every recordCouponUsage
\* call for a paid Order of its own, however its read and its save are
\* interleaved with those of other calls, leaves usedCount one higher and
\* the sum of the per-user usageCount values one higher than its save
\* found them.
C25_NoLostUpdate ==
    [][\A h \in Slots :
          (WH_SaveCoupon(h) /\ OnlyCallForOrder(h)) =>
              LET id == wh[h].couponId IN
              /\ coupons'[id].usedCount = coupons[id].usedCount + 1
              /\ UsageSum(coupons'[id].userUsage) =
                     UsageSum(coupons[id].userUsage) + 1]_vars

\* The step is one of the createOrder request in slot r.
StepOf(r) == co[r].pc # "idle" /\ co'[r] # co[r]

\* C26: the side effects of createOrder come in a fixed order: a request
\* creates its Invoice only when its Order is saved, and it clears the cart
\* only when its Order, holding the products it read from the cart, and
\* that Order's Invoice are both saved; no step of createOrder empties a
\* cart while its Order does not exist.
C26_OrderThenInvoiceThenCart ==
    [][\A r \in Slots :
          /\ (/\ StepOf(r)
               /\ Len(invoices') > Len(invoices)) =>
                  /\ co[r].order \in 1..Len(orders)
                  /\ invoices'[Len(invoices')].orderId = co[r].order
          /\ (/\ StepOf(r)
               /\ \E i \in 1..Len(carts) : /\ carts[i].products # <<>>
                                            /\ carts'[i].products = <<>>) =>
                  /\ co[r].order \in 1..Len(orders)
                  /\ orders[co[r].order].products = co[r].products
                  /\ InvoiceOf(invoices, co[r].order) # 0]_vars

\* A checkout has just been answered 201: its order is saved with the
\* cart's products and filed under an invoice, and the user's cart is empty.
C26_CheckoutCompleted ==
    /\ answer.handler = "createOrder"
    /\ answer.status = 201
    /\ answer.at = "clearCart"
    /\ orders[answer.order].products # <<>>
    /\ InvoiceOf(invoices, answer.order) # 0
    /\ carts[CartOf(carts, orders[answer.order].userId)].products = <<>>

\* The Paid orders that reference coupon c.
PaidWith(c) ==
    {o \in 1..Len(orders) : orders[o].couponId = c /\ orders[o].paymentStatus = "Paid"}

\* C27: whenever no handler is in flight, the usedCount of every coupon is
\* the number of Paid orders that reference it, the orders saved as Paid by
\* the zero-total path included: each such order was recorded exactly once.
C27_UsedCountIsPaidOrders ==
    Quiet => \A c \in DOMAIN coupons :
                 coupons[c].usedCount = Cardinality(PaidWith(c))

\* C28: the gateway session stored on an Unpaid order asks for the order's
\* amount, finalPrice in the currency of the session; a session re-issued
\* after an expiry asks for it too, whatever the cart holds by then.
C28_SessionChargesOrder ==
    \A o \in 1..Len(orders) :
        (orders[o].paymentStatus = "Unpaid" /\ orders[o].paymentId # 0) =>
            LET s == sessions[orders[o].paymentId] IN
            s.amount = orders[o].finalPrice * s.exchangeRate

\* The request createOrder holds once applyCoupon has returned for the
\* evaluated coupon and cart.
EvaluatedRequest ==
    LET res == applyCoupon([c \in {evaluation.coupon.code} |-> evaluation.coupon],
                           evaluation.coupon.code, evaluation.cart, "u1")
    IN  [IdleCo EXCEPT !.userId = "u1",
                       !.products = evaluation.cart.products,
                       !.totalPrice = evaluation.cart.totalPrice,
                       !.coupon = res.coupon,
                       !.discountUSD = res.discountUSD,
                       !.finalPriceUSD = res.finalPriceUSD,
                       !.order = 1]

\* C29: for a cart whose totalPrice is the sum of its line totals, none
\* negative, and a coupon within the schema's constraints, a successful
\* evaluation gives 0 <= discount <= cart.totalPrice: the clamp at 0 is not
\* exercised, and the Order and the Invoice built from the result have
\* finalPrice = totalPrice - couponDiscount exactly.
C29_DiscountWithinCartTotal ==
    (evaluation.called /\ evaluation.result.ok) =>
        LET order == NewOrder(EvaluatedRequest)
            invoice == NewInvoice(EvaluatedRequest, order)
        IN
        /\ 0 <= evaluation.result.discount
        /\ evaluation.result.discount <= evaluation.cart.totalPrice
        /\ evaluation.result.discountedTotal =
                evaluation.cart.totalPrice - evaluation.result.discount
        /\ order.couponDiscount = evaluation.result.discount
        /\ order.finalPrice = order.totalPrice - order.couponDiscount
        /\ invoice.finalAmount = invoice.totalAmount - invoice.discountAmount

\* A flat coupon has taken the whole total of a cart that just reaches the
\* coupon's minimum order amount.
C29_FlatTakesWholeCart ==
    /\ evaluation.called
    /\ evaluation.result.ok
    /\ evaluation.coupon.discountType = "flat"
    /\ evaluation.result.discount > 0
    /\ evaluation.result.discount = evaluation.cart.totalPrice
    /\ evaluation.cart.totalPrice = evaluation.coupon.minOrderAmount

\* C30: emptyCart called by a user without a customerId leaves the cart of
\* every other user as it was.
C30_OtherCartsUnchanged ==
    [][\A u \in Users, permitted \in BOOLEAN :
          emptyCart(u, NoUser, permitted) =>
              \A i \in 1..Len(carts) :
                  carts[i].userId # u => carts'[i] = carts[i]]_vars

====
